---- MODULE Spec2Model ----
(***************************************************************************)
(* Model of the response-observation and contract-enforcement pipeline:   *)
(*   - ApiHub (src/lib/ApiHub.ts): the response handler installed by      *)
(*     setupInterception, getLatency and assertLatencyWithin;             *)
(*   - ImageAssetDTO (src/lib/ChatPage.ts): the validating constructor    *)
(*     and isFromAuthorizedProvider.                                       *)
(* JavaScript values are modelled as tagged records so that truthiness,   *)
(* `||`, `?.` and Array.prototype.includes are computed as the code       *)
(* computes them.                                                          *)
(***************************************************************************)
EXTENDS Integers, Sequences, FiniteSets, TLC

VARIABLES
    requestTimings,   \* ApiHub.requestTimings : Map<string, number>
    lastEvent,        \* history: the response event delivered most recently
    seenUrls,         \* history: the URLs of all response events delivered
    replaced,         \* history: the channels whose stored value the last event changed
    lastCall,         \* the most recent getLatency / assertLatencyWithin call and its outcome
    data,             \* the raw payload handed to the ImageAssetDTO constructor
    result,           \* outcome of the constructor: entity or thrown error
    origin,           \* where `data` came from: a raw payload or an entity's raw form
    prior,            \* the entity whose raw form was re-validated (round trip)
    authorized        \* outcome of the last isFromAuthorizedProvider() call

hubVars == <<requestTimings, lastEvent, seenUrls, replaced, lastCall>>
dtoVars == <<data, result, origin, prior, authorized>>
vars == <<requestTimings, lastEvent, seenUrls, replaced, lastCall, data, result, origin, prior, authorized>>

(***************************************************************************)
(* Bounds                                                                  *)
(***************************************************************************)
\* largest responseEnd value the transport reports in the model
MaxTiming == 2
\* largest generationTime a payload carries in the model
MaxGenTime == 1

(***************************************************************************)
(* JavaScript values                                                       *)
(***************************************************************************)
Undefined == [t |-> "undefined", n |-> 0, s |-> ""]
Null == [t |-> "null", n |-> 0, s |-> ""]
Num(k) == [t |-> "number", n |-> k, s |-> ""]
Str(x) == [t |-> "string", n |-> 0, s |-> x]

\* ToBoolean, as used by `!x`, `x || y` and `c ? a : b`
Truthy(v) ==
    CASE v.t = "undefined" -> FALSE
      [] v.t = "null" -> FALSE
      [] v.t = "number" -> v.n # 0
      [] v.t = "string" -> v.s # ""
      [] OTHER -> TRUE

\* a || b
Or(a, b) == IF Truthy(a) THEN a ELSE b

(***************************************************************************)
(* ApiHub                                                                  *)
(***************************************************************************)
\* URLs are sequences of path segments; a substring is a contiguous run.
ChatPath == <<"/api", "/chat", "/messages">>
ImagePath == <<"/api", "/images", "/generate">>

\* String.prototype.includes
Includes(s, sub) ==
    \E i \in 0..(Len(s) - Len(sub)) : SubSeq(s, i + 1, i + Len(sub)) = sub

Urls ==
    { ChatPath,
      ImagePath,
      ChatPath \o ImagePath,
      <<"/api", "/users">> }

\* response.timing(): undefined, or an object whose responseEnd is a number
\* (-1 when the transport has no measurement) or undefined
ResponseEnds == {Undefined} \cup {Num(k) : k \in -1..MaxTiming}
Timings == {[present |-> FALSE, responseEnd |-> Undefined]}
              \cup {[present |-> TRUE, responseEnd |-> r] : r \in ResponseEnds}

Events == [url : Urls, postDataBuffer : BOOLEAN, timing : Timings]
NoEvent == [url |-> <<>>, postDataBuffer |-> FALSE,
            timing |-> [present |-> FALSE, responseEnd |-> Undefined]]

Endpoints == {"chat_latency", "image_generation_latency", "unknown_latency"}
Budgets == -1..MaxTiming

\* Map: a function from the keys set so far
EmptyMap == [k \in {} |-> Undefined]
MapHas(m, k) == k \in DOMAIN m
MapGet(m, k) == IF k \in DOMAIN m THEN m[k] ELSE Undefined
MapSet(m, k, v) == [x \in (DOMAIN m) \cup {k} |-> IF x = k THEN v ELSE m[x]]

\* response.timing()?.responseEnd
ResponseEnd(timing) == IF timing.present THEN timing.responseEnd ELSE Undefined

ChatBranch_keepFirst(rt, ev) ==
    IF Includes(ev.url, ChatPath) /\ ~MapHas(rt, "chat_latency")
    THEN LET timing == IF ev.postDataBuffer THEN ResponseEnd(ev.timing) ELSE Num(0)
         IN  MapSet(rt, "chat_latency", Or(timing, Num(0)))
    ELSE rt

\* first `if` of the response handler
ChatBranch(rt, ev) ==
    IF Includes(ev.url, ChatPath)
    THEN LET timing == IF ev.postDataBuffer THEN ResponseEnd(ev.timing) ELSE Num(0)
         IN  MapSet(rt, "chat_latency", Or(timing, Num(0)))
    ELSE rt

ImageBranch_chatKey(rt, ev) ==
    IF Includes(ev.url, ImagePath)
    THEN LET timing == Or(ResponseEnd(ev.timing), Num(0))
         IN  MapSet(rt, "chat_latency", Or(timing, Num(0)))
    ELSE rt

ImageBranch_skipUnmeasured(rt, ev) ==
    IF Includes(ev.url, ImagePath) /\ Truthy(ResponseEnd(ev.timing))
    THEN LET timing == Or(ResponseEnd(ev.timing), Num(0))
         IN  MapSet(rt, "image_generation_latency", Or(timing, Num(0)))
    ELSE rt

\* second `if` of the response handler
ImageBranch(rt, ev) ==
    IF Includes(ev.url, ImagePath)
    THEN LET timing == Or(ResponseEnd(ev.timing), Num(0))
         IN  MapSet(rt, "image_generation_latency", Or(timing, Num(0)))
    ELSE rt

OnResponse_firstMatch(rt, ev) ==
    IF Includes(ev.url, ChatPath) THEN ChatBranch(rt, ev) ELSE ImageBranch(rt, ev)

\* the whole handler: both `if`s run, in this order
OnResponse(rt, ev) == ImageBranch(ChatBranch(rt, ev), ev)

getLatency(rt, endpoint) == Or(MapGet(rt, endpoint), Num(0))

assertLatencyWithin_atLeast(rt, endpoint, maxMs) ==
    LET actual == getLatency(rt, endpoint)
    IN  actual.n >= maxMs

\* TRUE iff assertLatencyWithin throws
assertLatencyWithin(rt, endpoint, maxMs) ==
    LET actual == getLatency(rt, endpoint)
    IN  actual.n > maxMs

getLatency_ledger_insertDefault(rt, endpoint) ==
    IF MapHas(rt, endpoint) THEN rt ELSE MapSet(rt, endpoint, Num(0))

\* requestTimings after getLatency: Map.prototype.get leaves the map as it is
getLatency_ledger(rt, endpoint) == rt

\* requestTimings after assertLatencyWithin, returning or throwing: its only
\* access to the map is the getLatency call
assertLatencyWithin_ledger(rt, endpoint, maxMs) == getLatency_ledger(rt, endpoint)

NoCall == [op |-> "none", endpoint |-> "", maxMs |-> 0, ret |-> Undefined, raised |-> FALSE]

\* The host delivers one response event to the handler.
Response(ev) ==
    /\ requestTimings' = OnResponse(requestTimings, ev)
    /\ lastEvent' = ev
    /\ seenUrls' = seenUrls \cup {ev.url}
    /\ replaced' = {k \in DOMAIN requestTimings :
                       OnResponse(requestTimings, ev)[k] # requestTimings[k]}
    /\ lastCall' = NoCall
    /\ UNCHANGED dtoVars

GetLatencyCall(endpoint) ==
    /\ lastCall' = [op |-> "getLatency", endpoint |-> endpoint, maxMs |-> 0,
                    ret |-> getLatency(requestTimings, endpoint), raised |-> FALSE]
    /\ requestTimings' = getLatency_ledger(requestTimings, endpoint)
    /\ UNCHANGED <<lastEvent, seenUrls, replaced>>
    /\ UNCHANGED dtoVars

AssertLatencyWithinCall(endpoint, maxMs) ==
    /\ lastCall' = [op |-> "assertLatencyWithin", endpoint |-> endpoint, maxMs |-> maxMs,
                    ret |-> Undefined,
                    raised |-> assertLatencyWithin(requestTimings, endpoint, maxMs)]
    /\ requestTimings' = assertLatencyWithin_ledger(requestTimings, endpoint, maxMs)
    /\ UNCHANGED <<lastEvent, seenUrls, replaced>>
    /\ UNCHANGED dtoVars

(***************************************************************************)
(* ImageAssetDTO                                                           *)
(***************************************************************************)
\* ImageMetadata values: an object {width, height, quality}, or undefined / null
Meta(w, h, q) == [t |-> "object", width |-> w, height |-> h, quality |-> q]
UndefinedMeta == [t |-> "undefined", width |-> 0, height |-> 0, quality |-> ""]
NullMeta == [t |-> "null", width |-> 0, height |-> 0, quality |-> ""]

\* the literal { width: 1024, height: 1024, quality: 'premium' }
DefaultMetadata == Meta(1024, 1024, "premium")

\* the literal ['openai', 'stability-ai', 'midjourney']
Providers == <<Str("openai"), Str("stability-ai"), Str("midjourney")>>
\* the literal ['openai', 'stability-ai']
authorizedProviders == <<Str("openai"), Str("stability-ai")>>

\* Array.prototype.includes
ArrayIncludes(arr, v) == \E i \in 1..Len(arr) : arr[i] = v

\* raw payloads (`data: any`): every field may be absent (undefined), null,
\* or a value of any type
IdValues == {Undefined, Str(""), Str("x"), Num(42)}
UrlValues == {Undefined, Null, Str("y")}
ProviderValues == {Undefined, Str(""), Str("openai"), Str("stability-ai"),
                   Str("midjourney"), Str("unknown-vendor")}
GenTimeValues == {Undefined} \cup {Num(k) : k \in 0..MaxGenTime}
MetaValues == {UndefinedMeta, NullMeta, DefaultMetadata, Meta(512, 512, "standard")}

Payloads == [id : IdValues, url : UrlValues, provider : ProviderValues,
             generationTime : GenTimeValues, metadata : MetaValues]

NoData == [id |-> Undefined, url |-> Undefined, provider |-> Undefined,
           generationTime |-> Undefined, metadata |-> UndefinedMeta]
NoEntity == NoData

Throw(msg, arg) == [status |-> "throw", error |-> [msg |-> msg, arg |-> arg], entity |-> NoEntity]
Ok(e) == [status |-> "ok", error |-> [msg |-> "", arg |-> Undefined], entity |-> e]
NoResult == [status |-> "none", error |-> [msg |-> "", arg |-> Undefined], entity |-> NoEntity]

\* !data.id
MissingId(d) == ~Truthy(d.id)
\* !data.url
MissingUrl(d) == ~Truthy(d.url)

MissingProvider_unchecked(d) == FALSE
\* !data.provider
MissingProvider(d) == ~Truthy(d.provider)

InvalidProvider_unchecked(d) == FALSE
\* !['openai', 'stability-ai', 'midjourney'].includes(data.provider)
InvalidProvider(d) == ~ArrayIncludes(Providers, d.provider)

Assign_swapped(d) ==
    [id |-> d.url,
     url |-> d.id,
     provider |-> d.provider,
     generationTime |-> Or(d.generationTime, Num(0)),
     metadata |-> Or(d.metadata, DefaultMetadata)]

Assign_noDefault(d) ==
    [id |-> d.id,
     url |-> d.url,
     provider |-> d.provider,
     generationTime |-> d.generationTime,
     metadata |-> Or(d.metadata, DefaultMetadata)]

\* the five assignments to this.*
Assign(d) ==
    [id |-> d.id,
     url |-> d.url,
     provider |-> d.provider,
     generationTime |-> Or(d.generationTime, Num(0)),
     metadata |-> Or(d.metadata, DefaultMetadata)]

ImageAssetDTO_providerFirst(d) ==
    IF MissingProvider(d)
    THEN Throw("ImageAsset missing required field: provider", Undefined)
    ELSE IF InvalidProvider(d)
    THEN Throw("ImageAsset has invalid provider: ", d.provider)
    ELSE IF MissingId(d) THEN Throw("ImageAsset missing required field: id", Undefined)
    ELSE IF MissingUrl(d) THEN Throw("ImageAsset missing required field: url", Undefined)
    ELSE Ok(Assign(d))

\* new ImageAssetDTO(d): the entity constructed, or the error thrown
ImageAssetDTO(d) ==
    IF MissingId(d) THEN Throw("ImageAsset missing required field: id", Undefined)
    ELSE IF MissingUrl(d) THEN Throw("ImageAsset missing required field: url", Undefined)
    ELSE IF MissingProvider(d)
    THEN Throw("ImageAsset missing required field: provider", Undefined)
    ELSE IF InvalidProvider(d)
    THEN Throw("ImageAsset has invalid provider: ", d.provider)
    ELSE Ok(Assign(d))

isFromAuthorizedProvider_anyProvider(e) == ArrayIncludes(Providers, e.provider)
isFromAuthorizedProvider(e) == ArrayIncludes(authorizedProviders, e.provider)

\* the raw form of an entity: its five fields as a payload
RawForm(e) == [id |-> e.id, url |-> e.url, provider |-> e.provider,
               generationTime |-> e.generationTime, metadata |-> e.metadata]

\* new ImageAssetDTO(p) on a raw payload
Construct(p) ==
    /\ data' = p
    /\ result' = ImageAssetDTO(p)
    /\ origin' = "payload"
    /\ prior' = NoEntity
    /\ authorized' = "none"
    /\ UNCHANGED hubVars

\* new ImageAssetDTO(e) on the raw form of the entity just constructed
Revalidate ==
    /\ result.status = "ok"
    /\ origin = "payload"
    /\ data' = RawForm(result.entity)
    /\ result' = ImageAssetDTO(RawForm(result.entity))
    /\ origin' = "roundtrip"
    /\ prior' = result.entity
    /\ authorized' = "none"
    /\ UNCHANGED hubVars

\* entity.isFromAuthorizedProvider()
IsFromAuthorizedProviderCall ==
    /\ result.status = "ok"
    /\ authorized' = IF isFromAuthorizedProvider(result.entity) THEN "true" ELSE "false"
    /\ UNCHANGED <<data, result, origin, prior>>
    /\ UNCHANGED hubVars

(***************************************************************************)
(* Specifications                                                          *)
(***************************************************************************)
Init ==
    /\ requestTimings = EmptyMap
    /\ lastEvent = NoEvent
    /\ seenUrls = {}
    /\ replaced = {}
    /\ lastCall = NoCall
    /\ data = NoData
    /\ result = NoResult
    /\ origin = "none"
    /\ prior = NoEntity
    /\ authorized = "none"

\* one ApiHub instance observing a session
Next ==
    \/ \E ev \in Events : Response(ev)
    \/ \E endpoint \in Endpoints : GetLatencyCall(endpoint)
    \/ \E endpoint \in Endpoints, maxMs \in Budgets : AssertLatencyWithinCall(endpoint, maxMs)

Spec == Init /\ [][Next]_vars

\* the validation and policy path
NextDTO ==
    \/ \E p \in Payloads : Construct(p)
    \/ Revalidate
    \/ IsFromAuthorizedProviderCall

SpecDTO == Init /\ [][NextDTO]_vars

(***************************************************************************)
(* Properties                                                              *)
(***************************************************************************)
\* the observation rules, in the order the handler tests them
Rules == << [urlSubstring |-> ChatPath, channel |-> "chat_latency"],
            [urlSubstring |-> ImagePath, channel |-> "image_generation_latency"] >>

Matches(url, ch) ==
    \E i \in 1..Len(Rules) : Rules[i].channel = ch /\ Includes(url, Rules[i].urlSubstring)

MatchesBoth(url) == Includes(url, ChatPath) /\ Includes(url, ImagePath)

\* the number the transport measured for an event, 0 when it supplied none
Measured(ev) ==
    IF ev.timing.present /\ ev.timing.responseEnd.t = "number"
    THEN ev.timing.responseEnd.n
    ELSE 0

NeverObserved(ch) == \A u \in seenUrls : ~Matches(u, ch)

\* C3: for every channel for which no matching response event has been
\* delivered, getLatency returns 0 and assertLatencyWithin does not raise for
\* any budget >= 0.
C3_NeverObservedIsNeutral ==
    \A ch \in Endpoints :
        NeverObserved(ch)
            => /\ ~MapHas(requestTimings, ch)
               /\ getLatency(requestTimings, ch) = Num(0)
               /\ \A b \in Budgets : b >= 0 => ~assertLatencyWithin(requestTimings, ch, b)
               /\ (lastCall.op = "getLatency" /\ lastCall.endpoint = ch)
                      => lastCall.ret = Num(0)
               /\ (lastCall.op = "assertLatencyWithin" /\ lastCall.endpoint = ch
                      /\ lastCall.maxMs >= 0) => ~lastCall.raised

C3_Witness ==
    /\ seenUrls = {ImagePath}
    /\ requestTimings["image_generation_latency"] = Num(2)
    /\ NeverObserved("chat_latency")
    /\ lastCall.op = "assertLatencyWithin"
    /\ lastCall.endpoint = "chat_latency"
    /\ lastCall.maxMs = 0
    /\ ~lastCall.raised

\* C4 (as claimed): every value stored in requestTimings, and every result of
\* getLatency, is a number >= 0, whatever timing the transport reports.
C4_SamplesNonNegative ==
    /\ \A k \in DOMAIN requestTimings :
          requestTimings[k].t = "number" /\ requestTimings[k].n >= 0
    /\ \A e \in Endpoints :
          getLatency(requestTimings, e).t = "number" /\ getLatency(requestTimings, e).n >= 0

NonEmptyString(v) == v.t = "string" /\ v.s # ""

ProviderSet == {Str("openai"), Str("stability-ai"), Str("midjourney")}

\* C5 (as claimed): every constructed entity has an id and a url that are
\* non-empty strings and a provider in {'openai','stability-ai','midjourney'}.
C5_ValidatedEntity ==
    result.status = "ok"
        => /\ NonEmptyString(result.entity.id)
           /\ NonEmptyString(result.entity.url)
           /\ result.entity.provider \in ProviderSet

\* C6: isFromAuthorizedProvider() on a validated entity returns true iff its
\* provider is 'openai' or 'stability-ai', and false for 'midjourney'.
C6_AuthorizedIffWhitelisted ==
    (result.status = "ok" /\ authorized # "none")
        => /\ authorized \in {"true", "false"}
           /\ (authorized = "true"
                  <=> result.entity.provider \in {Str("openai"), Str("stability-ai")})
           /\ (result.entity.provider = Str("midjourney") => authorized = "false")

C6_Witness ==
    /\ result.status = "ok"
    /\ result.entity.provider = Str("midjourney")
    /\ authorized = "false"

\* a required field passes the constructor's presence check
Present(v) == Truthy(v)

\* C7: a payload whose id, url and provider pass the presence checks but
\* whose provider is not in the enumerated set makes the constructor throw
\* the invalid-provider error, and no entity is constructed, whatever the
\* optional fields are.
C7_InvalidProviderRejected ==
    (origin = "payload" /\ Present(data.id) /\ Present(data.url)
        /\ Present(data.provider) /\ data.provider \notin ProviderSet)
        => /\ result.status = "throw"
           /\ result.error = [msg |-> "ImageAsset has invalid provider: ",
                              arg |-> data.provider]
           /\ result.entity = NoEntity

C7_Witness ==
    /\ origin = "payload"
    /\ data = [id |-> Str("x"), url |-> Str("y"), provider |-> Str("unknown-vendor"),
               generationTime |-> Num(1), metadata |-> DefaultMetadata]
    /\ result.status = "throw"
    /\ result.error.arg = Str("unknown-vendor")

\* C8: a payload whose id and url pass the presence checks but whose provider
\* field is absent makes the constructor throw the error naming the provider
\* field as missing, and no entity is constructed, whatever the optional
\* fields are.
C8_MissingProviderRejected ==
    (origin = "payload" /\ Present(data.id) /\ Present(data.url)
        /\ data.provider = Undefined)
        => /\ result.status = "throw"
           /\ result.error.msg = "ImageAsset missing required field: provider"
           /\ result.entity = NoEntity

C8_Witness ==
    /\ origin = "payload"
    /\ data = [id |-> Str("x"), url |-> Str("y"), provider |-> Undefined,
               generationTime |-> Undefined, metadata |-> DefaultMetadata]
    /\ result.status = "throw"
    /\ result.error.msg = "ImageAsset missing required field: provider"

\* C9: a payload with valid id, url and provider that omits generationTime
\* and metadata validates to an entity with generationTime 0, metadata
\* {width: 1024, height: 1024, quality: 'premium'} and id, url and provider
\* copied unchanged.
C9_DefaultsApplied ==
    (origin = "payload" /\ Present(data.id) /\ Present(data.url)
        /\ data.provider \in ProviderSet
        /\ data.generationTime = Undefined /\ data.metadata = UndefinedMeta)
        => /\ result.status = "ok"
           /\ result.entity.generationTime = Num(0)
           /\ result.entity.metadata
                = [t |-> "object", width |-> 1024, height |-> 1024, quality |-> "premium"]
           /\ result.entity.id = data.id
           /\ result.entity.url = data.url
           /\ result.entity.provider = data.provider

C9_Witness ==
    /\ origin = "payload"
    /\ data = [id |-> Str("x"), url |-> Str("y"), provider |-> Str("openai"),
               generationTime |-> Undefined, metadata |-> UndefinedMeta]
    /\ result.status = "ok"
    /\ result.entity.generationTime = Num(0)

\* C10: validating the raw form of an entity obtained by validation succeeds
\* and yields an entity equal to it in all five fields.
C10_RoundTrip ==
    origin = "roundtrip"
        => /\ result.status = "ok"
           /\ result.entity.id = prior.id
           /\ result.entity.url = prior.url
           /\ result.entity.provider = prior.provider
           /\ result.entity.generationTime = prior.generationTime
           /\ result.entity.metadata = prior.metadata

C10_Witness ==
    /\ origin = "roundtrip"
    /\ result.status = "ok"
    /\ prior.id = Str("x")
    /\ prior.url = Str("y")
    /\ prior.generationTime = Num(0)
    /\ prior.metadata = DefaultMetadata
    /\ result.entity = prior

\* C11: getLatency and assertLatencyWithin, returning or raising, leave the
\* Ledger unchanged (values and presence), so every getLatency result is the
\* same before and after the call and the value a getLatency call returns is
\* the one any later read returns until the next response event.
C11_ReadsLeaveLedger ==
    [][lastCall'.op \in {"getLatency", "assertLatencyWithin"}
          => /\ requestTimings' = requestTimings
             /\ DOMAIN requestTimings' = DOMAIN requestTimings
             /\ \A e \in Endpoints :
                   getLatency(requestTimings', e) = getLatency(requestTimings, e)
             /\ lastCall'.op = "getLatency"
                   => lastCall'.ret = getLatency(requestTimings', lastCall'.endpoint)
             /\ (lastCall.op = "getLatency" /\ lastCall'.op = "getLatency"
                    /\ lastCall'.endpoint = lastCall.endpoint)
                   => lastCall'.ret = lastCall.ret]_vars

C11_Witness ==
    /\ lastCall.op = "getLatency"
    /\ lastCall.endpoint = "image_generation_latency"
    /\ lastCall.ret = Num(0)
    /\ ~MapHas(requestTimings, "image_generation_latency")
    /\ MapHas(requestTimings, "chat_latency")
    /\ requestTimings["chat_latency"] = Num(1)

\* the value the rule of channel ch writes for event ev, from ev alone
Written(ev, ch) ==
    IF ch = "chat_latency"
    THEN Num(IF ev.postDataBuffer THEN Measured(ev) ELSE 0)
    ELSE Num(Measured(ev))

\* C12: every delivered response event overwrites, for each channel whose rule
\* its URL matches, the stored value with the value written for that event,
\* whatever was stored before (so the value held is that of the most recently
\* delivered matching event, a stale one included), and leaves the value and
\* the presence of every other channel unchanged; an event matching no rule
\* changes nothing.  (A step delivers the event it records in lastEvent.)
C12_LastDeliveredWins ==
    [][Response(lastEvent')
          => \A ch \in Endpoints :
                 IF Matches(lastEvent'.url, ch)
                 THEN /\ MapHas(requestTimings', ch)
                      /\ requestTimings'[ch] = Written(lastEvent', ch)
                 ELSE /\ MapHas(requestTimings', ch) = MapHas(requestTimings, ch)
                      /\ MapGet(requestTimings', ch) = MapGet(requestTimings, ch)]_vars

\* a later chat response with a smaller measurement has replaced the stored one
C12_Witness ==
    /\ lastEvent.url = ChatPath
    /\ lastEvent.postDataBuffer
    /\ Measured(lastEvent) = 1
    /\ replaced = {"chat_latency"}
    /\ MapGet(requestTimings, "chat_latency") = Num(1)
    /\ MapGet(requestTimings, "image_generation_latency") = Num(2)
    /\ <<"/api", "/users">> \in seenUrls

\* the validation checks in their fixed order, each with the error it raises
Checks ==
    << [fails |-> [d \in Payloads |-> ~Present(d.id)],
        msg |-> "ImageAsset missing required field: id"],
       [fails |-> [d \in Payloads |-> ~Present(d.url)],
        msg |-> "ImageAsset missing required field: url"],
       [fails |-> [d \in Payloads |-> ~Present(d.provider)],
        msg |-> "ImageAsset missing required field: provider"],
       [fails |-> [d \in Payloads |-> d.provider \notin ProviderSet],
        msg |-> "ImageAsset has invalid provider: "] >>

FailingChecks(d) == {i \in 1..Len(Checks) : Checks[i].fails[d]}

Earliest(S) == CHOOSE i \in S : \A j \in S : i <= j

\* C13: validation fails exactly when one of the checks id present, url
\* present, provider present, provider in the enumerated set fails, and the
\* error raised is that of the earliest failing check in this order; later
\* failing checks contribute nothing to it.
C13_FirstFailureReported ==
    origin = "payload"
        => /\ result.status = "throw" <=> FailingChecks(data) # {}
           /\ result.status = "throw"
                 => LET i == Earliest(FailingChecks(data))
                    IN  /\ result.error.msg = Checks[i].msg
                        /\ result.error.arg = IF i = Len(Checks) THEN data.provider
                                                                 ELSE Undefined
                        /\ result.entity = NoEntity

\* a payload missing both id and provider raises the id error; a payload
\* missing url with an invalid provider raises the url error
C13_Witness ==
    /\ origin = "payload"
    /\ \/ /\ data.id = Undefined
          /\ data.url = Str("y")
          /\ data.provider = Undefined
          /\ result.error.msg = "ImageAsset missing required field: id"
       \/ /\ data.id = Str("x")
          /\ data.url = Undefined
          /\ data.provider = Str("unknown-vendor")
          /\ result.error.msg = "ImageAsset missing required field: url"
    /\ Cardinality(FailingChecks(data)) >= 2
    /\ result.status = "throw"

\* the transport supplied no timing information with the event
Unmeasured(ev) == ~ev.timing.present \/ ev.timing.responseEnd = Undefined

====
